---- MODULE Spec2Model ----
(***************************************************************************)
(* Model of the runtime assessment engine, src/src/RuntimeAssessment.py.   *)
(*                                                                         *)
(* The engine coroutine async_run is a sequential process whose position   *)
(* is pc; pause() and resume() are calls other tasks or threads may make   *)
(* between any two of its steps.  The channel assessors (AssessmentObject, *)
(* whose code is not part of the sources at hand) are tasks created by     *)
(* async_run and joined by asyncio.gather.  The environment moves the ROS  *)
(* clock, starts and stops the target node and may shut ROS down.          *)
(***************************************************************************)
EXTENDS Integers, Sequences, FiniteSets, TLC

(***************************************************************************)
(* Bounds of the model.                                                    *)
(***************************************************************************)
NumAssessors == 2      \* channel assessors in assessment_pool
MaxMsgs == 1           \* messages one assessor may count
MaxTime == 2           \* largest value of the ROS clock
MaxPublished == 11     \* events published in one run
MaxRequests == 3       \* effective pause()/resume() calls that are counted
MaxSpecs == 2          \* MetricSpecs in a metrics_assessment_pool
MaxReqs == 2           \* requirements of one MetricSpec
NumPublishers == 2     \* further tasks that call publish_global_event
MaxConcurrent == 3     \* calls of publish_global_event by the further tasks

(***************************************************************************)
(* Program constants.                                                      *)
(***************************************************************************)
QueueCap == 10         \* "keep the queue size at maximum 10 events"
DefaultTolerance == 5  \* tolerance 0.05, in hundredths

NODE_ADDED == "NODE_ADDED"
NODE_REMOVED == "NODE_REMOVED"
ASSESSMENT_PAUSED == "ASSESSMENT_PAUSED"
ASSESSMENT_RESUMED == "ASSESSMENT_RESUMED"
GlobalEvents == {NODE_ADDED, NODE_REMOVED, ASSESSMENT_PAUSED, ASSESSMENT_RESUMED}

Assessors == 1..NumAssessors
Publishers == 1..NumPublishers

VARIABLES
    pc,                       \* position of async_run
    is_running,               \* self.is_running
    is_paused,                \* self.is_paused
    assessment_over,          \* self.assessment_over
    start_time,               \* self.start_time
    metrics,                  \* self.metrics
    global_event_queue,       \* self.global_event_queue
    published,                \* history: every event appended, in order
    task,                     \* state of each assessor task
    count,                    \* obj.metrics['number_of_messages'] of each assessor
    target_up,                \* target_node in rosnode.get_node_names()
    clock,                    \* rospy.get_time()
    shutdown,                 \* rospy.is_shutdown()
    metrics_assessment_pool,  \* self.metrics_assessment_pool
    assess_log,               \* what metric_assessment has logged
    requests,                 \* history: effective pause()/resume() calls, saturating
    paused_msgs,              \* history: messages counted while the engine was Paused
    lock,                     \* self.lock is held
    ppc,                      \* position of each further task inside publish_global_event
    acquired,                 \* history: events in the order their publishers took the lock
    specifications,           \* config.specifications, the requirement dictionaries
    allocated                 \* assessment_object_allocator has run

vars == <<pc, is_running, is_paused, assessment_over, start_time, metrics,
          global_event_queue, published, task, count, target_up, clock,
          shutdown, metrics_assessment_pool, assess_log, requests, paused_msgs,
          lock, ppc, acquired, specifications, allocated>>

pub_vars == <<lock, ppc, acquired>>
alloc_vars == <<specifications, allocated>>
aux_vars == <<pub_vars, alloc_vars>>
engine_vars == <<is_running, is_paused, assessment_over, start_time, metrics>>
env_vars == <<target_up, clock, shutdown>>
task_vars == <<task, count>>
log_vars == <<global_event_queue, published>>

(***************************************************************************)
(* Numbers.  A metric value is a rational num/den: execution_time and      *)
(* number_of_messages have den = 1, frequency is their quotient.           *)
(***************************************************************************)
Rat(n, d) == [num |-> n, den |-> d]
Zero == Rat(0, 1)
Undefined == Rat(0, 0)   \* the "undefined" frequency the specification asks for

MetricKeys == {"execution_time", "number_of_messages", "frequency"}

InitMetrics == [execution_time |-> 0, number_of_messages |-> 0, frequency |-> Zero]


(***************************************************************************)
(* metric_assessment.  A requirement of a MetricSpec is                    *)
(*   [target, tolerance, comparator, verdict]                              *)
(* target is a value [list |-> FALSE, num, limits |-> <<>>] (num says      *)
(* whether is_numeric holds of it) or a list of single-key dictionaries    *)
(* [list |-> TRUE, num |-> FALSE, limits |-> <<[k, num], ...>>].  verdict  *)
(* is what the call of check_value_params (utils, outside these sources)   *)
(* does for the requirement: returns True, returns False, or raises.       *)
(***************************************************************************)
Verdicts == {"True", "False", "raises"}

Value(isnum) == [list |-> FALSE, num |-> isnum, limits |-> <<>>]
Limits(ls) == [list |-> TRUE, num |-> FALSE, limits |-> ls]
Limit(key, isnum) == [k |-> key, num |-> isnum]

Targets ==
    { Value(TRUE),                                        \* target: 2.0
      Value(FALSE),                                       \* target: "fast"
      Limits(<<Limit("min", TRUE), Limit("max", TRUE)>>), \* [{min: 1}, {max: 3}]
      Limits(<<Limit("min", FALSE)>>),                    \* [{min: "abc"}]
      Limits(<<Limit("avg", TRUE)>>) }                    \* [{avg: 1}]

Requirement(t, v) ==
    [target |-> t, tolerance |-> DefaultTolerance, comparator |-> "=", verdict |-> v]

\* The requirements the model draws from: every target shape, and every
\* outcome of the evaluator.
Requirements ==
    { Requirement(Value(TRUE), "True"),
      Requirement(Value(TRUE), "raises"),
      Requirement(Limits(<<Limit("min", TRUE), Limit("max", TRUE)>>), "False") }
      \cup { Requirement(t, "True") : t \in Targets \ {Value(TRUE)} }

MetricNames == {"frequency", "latency"}

SeqsUpTo(S, n) == UNION { [1..m -> S] : m \in 1..n }

MetricSpecs ==
    [metric : MetricNames, requirements : SeqsUpTo(Requirements, MaxReqs)]

AllPools == SeqsUpTo(MetricSpecs, MaxSpecs)

\* lines 289-301: some limit of a list target has a non-numeric value or a
\* key other than min and max.
InvalidLimits(target) ==
    \E j \in 1..Len(target.limits) :
        \/ ~target.limits[j].num
        \/ target.limits[j].k \notin {"min", "max"}

\* lines 303-315 and 320-331: the try block around check_value_params.
Evaluated(req) ==
    CASE req.verdict = "True" -> "PASSED"
      [] req.verdict = "False" -> "FAILED"
      [] OTHER -> "exception"

\* lines 278-335: what one iteration of the requirement loop logs.
RequirementOutcome(req) ==
    IF req.target.list
        THEN IF InvalidLimits(req.target) THEN "invalid_target" ELSE Evaluated(req)
        ELSE IF req.target.num THEN Evaluated(req) ELSE "invalid_target"

\* PASSED and FAILED `continue`; every other outcome is followed by `return`.
Returns(outcome) == outcome \notin {"PASSED", "FAILED"}

\* A line of the log; call holds the arguments of check_value_params when
\* the requirement was evaluated.
LogEntry(k, i, o, c) == [spec |-> k, req |-> i, outcome |-> o, call |-> c]

Entry(k, i, o) == LogEntry(k, i, o, <<>>)

\* lines 305 and 321: the positional arguments of check_value_params, the
\* observed value and, for the rest, the name of what is passed.
CallArguments(req, value) ==
    IF req.target.list
        THEN <<value, "(min_val, max_val)", "comparator", "tolerance">>
        ELSE <<value, "target", "tolerance", "comparator">>

\* lines 277-335: the requirement loop of the k-th MetricSpec, from its i-th
\* requirement on.  returned tells that the loop ended in `return`.
RECURSIVE RequirementLoop(_, _, _, _)
RequirementLoop(k, reqs, i, value) ==
    IF i > Len(reqs)
        THEN [log |-> <<>>, returned |-> FALSE]
        ELSE LET o == RequirementOutcome(reqs[i])
                 c == IF o = "invalid_target" THEN <<>> ELSE CallArguments(reqs[i], value)
             IN  IF Returns(o)
                     THEN [log |-> <<LogEntry(k, i, o, c)>>, returned |-> TRUE]
                     ELSE LET rest == RequirementLoop(k, reqs, i + 1, value)
                          IN  [log |-> <<LogEntry(k, i, o, c)>> \o rest.log,
                               returned |-> rest.returned]

\* lines 269-335: the loop over the pool, from the k-th MetricSpec on; m is
\* self.metrics.
RECURSIVE MetricLoop(_, _, _)
MetricLoop(pool, k, m) ==
    IF k > Len(pool)
        THEN <<>>
        ELSE IF pool[k].metric \in MetricKeys
            THEN LET r == RequirementLoop(k, pool[k].requirements, 1, m[pool[k].metric])
                 IN  <<Entry(k, 0, "assessing")>> \o r.log
                       \o (IF r.returned THEN <<>> ELSE MetricLoop(pool, k + 1, m))
            ELSE <<Entry(k, 0, "not_found")>> \o MetricLoop(pool, k + 1, m)

metric_assessment(pool, m) == MetricLoop(pool, 1, m)


(***************************************************************************)
(* The event queue.                                                        *)
(***************************************************************************)
\* publish_global_event evicting one entry too early (>= for >).
publish_global_event_early(queue, stamp, event) ==
    LET appended == Append(queue, [stamp |-> stamp, event |-> event])
    IN  IF Len(appended) >= QueueCap THEN Tail(appended) ELSE appended

\* lines 102-108: the body of publish_global_event.  The time stamp of an
\* entry, datetime.now(), is the ordinal of the publication.
publish_global_event(queue, stamp, event) ==
    LET appended == Append(queue, [stamp |-> stamp, event |-> event])
    IN  IF Len(appended) > QueueCap THEN Tail(appended) ELSE appended

\* `await self.publish_global_event(event)` in async_run.
Publish(event) ==
    /\ global_event_queue' =
           publish_global_event(global_event_queue, Len(published) + 1, event)
    /\ published' = Append(published, event)

(***************************************************************************)
(* publish_global_event called by further tasks, taken one line at a time  *)
(* so that every interleaving of the callers is covered.                   *)
(***************************************************************************)
\* The lock not consulted.
LockFree_ignored == TRUE

\* line 102: `async with self.lock` goes on when the lock is not held.
LockFree == ~lock

\* line 102: the caller takes the lock.
PubAcquire(p, event) ==
    /\ ppc[p] = "idle"
    /\ LockFree
    /\ Len(acquired) < MaxConcurrent
    /\ lock' = TRUE
    /\ ppc' = [ppc EXCEPT ![p] = "append"]
    /\ acquired' = Append(acquired, event)
    /\ UNCHANGED <<pc, engine_vars, log_vars, task_vars, env_vars,
                   metrics_assessment_pool, assess_log, requests, paused_msgs,
                   alloc_vars>>

\* line 103: the append.
PubAppend(p) ==
    /\ ppc[p] = "append"
    /\ global_event_queue' =
           Append(global_event_queue,
                  [stamp |-> Len(published) + 1, event |-> acquired[Len(acquired)]])
    /\ published' = Append(published, acquired[Len(acquired)])
    /\ ppc' = [ppc EXCEPT ![p] = "evict"]
    /\ UNCHANGED <<pc, engine_vars, task_vars, env_vars, metrics_assessment_pool,
                   assess_log, requests, paused_msgs, lock, acquired, alloc_vars>>

\* lines 107-108: the eviction.
PubEvict(p) ==
    /\ ppc[p] = "evict"
    /\ global_event_queue' =
           IF Len(global_event_queue) > QueueCap
               THEN Tail(global_event_queue)
               ELSE global_event_queue
    /\ ppc' = [ppc EXCEPT ![p] = "release"]
    /\ UNCHANGED <<pc, engine_vars, published, task_vars, env_vars,
                   metrics_assessment_pool, assess_log, requests, paused_msgs,
                   lock, acquired, alloc_vars>>

\* the end of the `async with` block: the lock is released.
PubRelease(p) ==
    /\ ppc[p] = "release"
    /\ lock' = FALSE
    /\ ppc' = [ppc EXCEPT ![p] = "idle"]
    /\ UNCHANGED <<pc, engine_vars, log_vars, task_vars, env_vars,
                   metrics_assessment_pool, assess_log, requests, paused_msgs,
                   acquired, alloc_vars>>

Publisher(p) ==
    \/ \E event \in GlobalEvents : PubAcquire(p, event)
    \/ PubAppend(p)
    \/ PubEvict(p)
    \/ PubRelease(p)

(***************************************************************************)
(* The engine loop, async_run.                                             *)
(***************************************************************************)
\* The loop condition without the assessment_over test.
LoopCond_restartable == ~shutdown

\* line 126: the condition of the while loop.
LoopCond == ~shutdown /\ ~assessment_over

\* The gather left out: end_assessment follows the publication at once.
GatherDone_nowait == TRUE

\* lines 133 and 143: asyncio.gather returns once every task has finished.
GatherDone == \A a \in Assessors : task[a] = "Closed"

\* The loop entered without the tasks being created.
CreateTasks_none ==
    /\ pc = "create_tasks"
    /\ pc' = "while"
    /\ UNCHANGED <<engine_vars, log_vars, task_vars, env_vars,
                   metrics_assessment_pool, assess_log, requests, paused_msgs, aux_vars>>

\* line 124: one task per object of assessment_pool.
CreateTasks ==
    /\ pc = "create_tasks"
    /\ task' = [a \in Assessors |-> "Subscribing"]
    /\ pc' = "while"
    /\ UNCHANGED <<engine_vars, log_vars, count, env_vars,
                   metrics_assessment_pool, assess_log, requests, paused_msgs, aux_vars>>

Goto(from, to) ==
    /\ pc = from
    /\ pc' = to
    /\ UNCHANGED <<engine_vars, log_vars, task_vars, env_vars,
                   metrics_assessment_pool, assess_log, requests, paused_msgs, aux_vars>>

\* line 126: the loop ends.
LoopExit == ~LoopCond /\ Goto("while", "returned")

\* lines 147-153: not running.
PollIdlePresent == LoopCond /\ ~is_running /\ target_up /\ Goto("while", "publish_added")
PollIdleAbsent == LoopCond /\ ~is_running /\ ~target_up /\ Goto("while", "sleep")

\* lines 139-146: running, not paused.
PollRunningAbsent ==
    LoopCond /\ is_running /\ ~is_paused /\ ~target_up /\ Goto("while", "publish_removed")
PollRunningPresent ==
    LoopCond /\ is_running /\ ~is_paused /\ target_up /\ Goto("while", "sleep")

\* lines 130-138: running and paused.
PollPausedAbsent ==
    LoopCond /\ is_running /\ is_paused /\ ~target_up /\ Goto("while", "publish_removed")
PollPausedPresent ==
    /\ LoopCond /\ is_running /\ is_paused /\ target_up
    /\ Len(published) < MaxPublished - 1
    /\ Goto("while", "publish_paused")

PublishStep(from, event, to) ==
    /\ pc = from
    /\ Publish(event)
    /\ pc' = to
    /\ UNCHANGED <<engine_vars, task_vars, env_vars,
                   metrics_assessment_pool, assess_log, requests, paused_msgs, aux_vars>>

PublishAdded == PublishStep("publish_added", NODE_ADDED, "start_assessment")   \* line 150
PublishPaused == PublishStep("publish_paused", ASSESSMENT_PAUSED, "sleep")     \* line 137
PublishRemoved == PublishStep("publish_removed", NODE_REMOVED, "gather")       \* lines 132, 142

\* lines 138, 146, 153: await asyncio.sleep(1.0)
Sleep == Goto("sleep", "while")

\* lines 133, 143: await asyncio.gather(*assessment_tasks)
Gather == GatherDone /\ Goto("gather", "end_assessment")

\* start_assessment without line 187.
StartAssessment_notrunning ==
    /\ pc = "start_assessment"
    /\ start_time' = clock
    /\ is_paused' = FALSE
    /\ pc' = "while"
    /\ UNCHANGED <<is_running, assessment_over, metrics, log_vars, task_vars, env_vars,
                   metrics_assessment_pool, assess_log, requests, paused_msgs, aux_vars>>

\* lines 180-188
StartAssessment ==
    /\ pc = "start_assessment"
    /\ start_time' = clock
    /\ is_paused' = FALSE
    /\ is_running' = TRUE
    /\ pc' = "while"
    /\ UNCHANGED <<assessment_over, metrics, log_vars, task_vars, env_vars,
                   metrics_assessment_pool, assess_log, requests, paused_msgs, aux_vars>>

\* The elapsed time taken as the current time.
get_time_elapsed_absolute == clock

\* lines 216-221
get_time_elapsed == clock - start_time

\* lines 339-344
RECURSIVE SumCounts(_)
SumCounts(n) == IF n = 0 THEN 0 ELSE count[n] + SumCounts(n - 1)

aggregate_message_counts == SumCounts(NumAssessors)

\* lines 191-213.  The division of line 199 raises ZeroDivisionError when
\* execution_time is 0; the exception leaves end_assessment and async_run
\* with the two metrics of lines 197 and 198 already assigned.
EndAssessment ==
    /\ pc = "end_assessment"
    /\ LET et == get_time_elapsed
           n == aggregate_message_counts
       IN  IF et = 0
               THEN /\ metrics' = [metrics EXCEPT !.execution_time = et,
                                                  !.number_of_messages = n]
                    /\ pc' = "ZeroDivisionError"
                    /\ UNCHANGED <<is_running, is_paused, assessment_over, assess_log>>
               ELSE /\ metrics' = [execution_time |-> et,
                                   number_of_messages |-> n,
                                   frequency |-> Rat(n, et)]
                    /\ assess_log' = metric_assessment(metrics_assessment_pool, metrics')
                    /\ is_running' = FALSE
                    /\ is_paused' = FALSE
                    /\ assessment_over' = TRUE
                    /\ pc' = "while"
    /\ UNCHANGED <<start_time, log_vars, task_vars, env_vars,
                   metrics_assessment_pool, requests, paused_msgs, aux_vars>>

Engine ==
    \/ CreateTasks \/ LoopExit
    \/ PollIdlePresent \/ PollIdleAbsent
    \/ PollRunningAbsent \/ PollRunningPresent
    \/ PollPausedAbsent \/ PollPausedPresent
    \/ PublishAdded \/ PublishPaused \/ PublishRemoved
    \/ Sleep \/ Gather \/ StartAssessment \/ EndAssessment

(***************************************************************************)
(* pause() and resume().                                                   *)
(***************************************************************************)
Count(n) == IF n < MaxRequests THEN n + 1 ELSE n

\* pause() that also cancels the assessor tasks.
Pause_cancelling ==
    /\ IF is_running
           THEN /\ is_paused' = TRUE
                /\ requests' = IF is_paused THEN requests ELSE Count(requests)
                /\ task' = [a \in Assessors |->
                               IF task[a] = "NotCreated" THEN task[a] ELSE "Closed"]
           ELSE UNCHANGED <<is_paused, requests, task>>
    /\ UNCHANGED <<pc, is_running, assessment_over, start_time, metrics, log_vars,
                   count, env_vars, metrics_assessment_pool, assess_log,
                   paused_msgs, aux_vars>>

\* pause() without the test of line 163.
Pause_unguarded ==
    /\ is_paused' = TRUE
    /\ requests' = IF is_paused THEN requests ELSE Count(requests)
    /\ UNCHANGED <<pc, is_running, assessment_over, start_time, metrics, log_vars,
                   task_vars, env_vars, metrics_assessment_pool, assess_log,
                   paused_msgs, aux_vars>>

\* lines 158-165
Pause ==
    /\ IF is_running
           THEN /\ is_paused' = TRUE
                /\ requests' = IF is_paused THEN requests ELSE Count(requests)
           ELSE UNCHANGED <<is_paused, requests>>
    /\ UNCHANGED <<pc, is_running, assessment_over, start_time, metrics, log_vars,
                   task_vars, env_vars, metrics_assessment_pool, assess_log,
                   paused_msgs, aux_vars>>

\* lines 168-177.  publish_global_event is a coroutine function: the call of
\* line 176 creates a coroutine that is never awaited, so its body never runs
\* and nothing is appended to the queue.
Resume ==
    /\ IF is_paused
           THEN /\ is_paused' = FALSE
                /\ is_running' = TRUE
                /\ requests' = Count(requests)
           ELSE UNCHANGED <<is_paused, is_running, requests>>
    /\ UNCHANGED <<pc, assessment_over, start_time, metrics, log_vars,
                   task_vars, env_vars, metrics_assessment_pool, assess_log,
                   paused_msgs, aux_vars>>


(***************************************************************************)
(* The channel assessors.  AssessmentObject.run is not part of the sources *)
(* at hand; the task follows the life cycle the specification gives it,    *)
(* Subscribing -> Active -> Draining -> Closed, and takes the NODE_REMOVED *)
(* event of the queue as the signal to drain.                              *)
(***************************************************************************)
DrainSignalled ==
    \E i \in 1..Len(global_event_queue) : global_event_queue[i].event = NODE_REMOVED

TaskStep(a, from, to) ==
    /\ task[a] = from
    /\ task' = [task EXCEPT ![a] = to]
    /\ UNCHANGED <<pc, engine_vars, log_vars, count, env_vars,
                   metrics_assessment_pool, assess_log, requests, paused_msgs, aux_vars>>

Subscribe(a) == TaskStep(a, "Subscribing", "Active")
SubscribeTimeout(a) == TaskStep(a, "Subscribing", "Closed")
Drain(a) == DrainSignalled /\ TaskStep(a, "Active", "Draining")
Close(a) == TaskStep(a, "Draining", "Closed")

Receive(a) ==
    /\ task[a] = "Active"
    /\ count[a] < MaxMsgs
    /\ count' = [count EXCEPT ![a] = @ + 1]
    /\ paused_msgs' = IF is_running /\ is_paused THEN paused_msgs + 1 ELSE paused_msgs
    /\ UNCHANGED <<pc, engine_vars, log_vars, task, env_vars,
                   metrics_assessment_pool, assess_log, requests, aux_vars>>

Assessor(a) ==
    Subscribe(a) \/ SubscribeTimeout(a) \/ Receive(a) \/ Drain(a) \/ Close(a)

(***************************************************************************)
(* The environment: the target node, the ROS clock, ROS shutdown.          *)
(***************************************************************************)
TargetChange ==
    /\ target_up' = ~target_up
    /\ UNCHANGED <<pc, engine_vars, log_vars, task_vars, clock, shutdown,
                   metrics_assessment_pool, assess_log, requests, paused_msgs, aux_vars>>

Tick ==
    /\ clock < MaxTime
    /\ clock' = clock + 1
    /\ UNCHANGED <<pc, engine_vars, log_vars, task_vars, target_up, shutdown,
                   metrics_assessment_pool, assess_log, requests, paused_msgs, aux_vars>>

Shutdown ==
    /\ ~shutdown
    /\ shutdown' = TRUE
    /\ UNCHANGED <<pc, engine_vars, log_vars, task_vars, target_up, clock,
                   metrics_assessment_pool, assess_log, requests, paused_msgs, aux_vars>>

(***************************************************************************)
(* assessment_object_allocator.  A requirement of the configuration is a   *)
(* dictionary: a function from the keys it has to their values, written as *)
(* the strings of the configuration file.                                  *)
(***************************************************************************)
OptionalKeys ==
    {"mode", "temporal_consistency", "timein", "timeout", "tolerance", "comparator"}

\* What a configuration that gives the key writes for it (no default value).
Configured ==
    [mode |-> "max", temporal_consistency |-> "True", timein |-> "1.0",
     timeout |-> "9.0", tolerance |-> "0.5", comparator |-> "<", target |-> "2.0"]

\* The requirement dictionaries of a configuration: target and any subset of
\* the optional keys.
RawRequirements ==
    { [k \in K \cup {"target"} |-> Configured[k]] : K \in SUBSET OptionalKeys }

\* An assignment in place of setdefault.
setdefault_overwrite(req, key, value) ==
    [k \in DOMAIN req \cup {key} |-> IF k = key THEN value ELSE req[k]]

\* dict.setdefault(key, value)
setdefault(req, key, value) ==
    IF key \in DOMAIN req
        THEN req
        ELSE [k \in DOMAIN req \cup {key} |-> IF k = key THEN value ELSE req[k]]

\* lines 239-244
TopicDefaults ==
    << <<"mode", "exists">>, <<"temporal_consistency", "False">>,
       <<"timein", "None">>, <<"timeout", "None">>,
       <<"tolerance", "0.05">>, <<"comparator", "=">> >>

\* lines 254-259
MetricDefaults ==
    << <<"mode", "total">>, <<"temporal_consistency", "False">>,
       <<"timein", "None">>, <<"timeout", "None">>,
       <<"tolerance", "0.05">>, <<"comparator", "=">> >>

\* The setdefault calls of one loop body, from the i-th on.
RECURSIVE SetDefaults(_, _, _)
SetDefaults(req, defaults, i) ==
    IF i > Len(defaults)
        THEN req
        ELSE SetDefaults(setdefault(req, defaults[i][1], defaults[i][2]), defaults, i + 1)

\* lines 237-244 and 252-259: `for req in requirements`
FillAll(reqs, defaults) == [i \in 1..Len(reqs) |-> SetDefaults(reqs[i], defaults, 1)]

\* lines 224-261, for a configuration of one topic and one metric.
assessment_object_allocator(specs) ==
    [topic |-> FillAll(specs.topic, TopicDefaults),
     metric |-> FillAll(specs.metric, MetricDefaults)]

\* line 94, called by __init__: the dictionaries are filled in place, one
\* entry is appended to metrics_assessment_pool.
Allocate ==
    /\ pc = "__init__"
    /\ ~allocated
    /\ specifications' = assessment_object_allocator(specifications)
    /\ metrics_assessment_pool' =
           Append(metrics_assessment_pool,
                  [metric |-> "frequency", requirements |-> specifications'.metric])
    /\ allocated' = TRUE
    /\ pc' = "create_tasks"
    /\ UNCHANGED <<engine_vars, log_vars, task_vars, env_vars, assess_log,
                   requests, paused_msgs, pub_vars>>

(***************************************************************************)
(* Specifications.                                                         *)
(***************************************************************************)
MetricSpecOf(name, reqs) == [metric |-> name, requirements |-> reqs]

\* The pools of the engine runs: a pool whose requirement passes, and a pool
\* whose first requirement has an invalid target.
EnginePools ==
    { <<MetricSpecOf("frequency", <<Requirement(Value(TRUE), "True")>>)>>,
      <<MetricSpecOf("frequency", <<Requirement(Value(FALSE), "True")>>),
        MetricSpecOf("latency", <<Requirement(Value(TRUE), "True")>>)>> }

\* The dictionaries of a configuration that gives the targets only, filled.
FilledSpecifications ==
    assessment_object_allocator(
        [topic |-> <<[k \in {"target"} |-> Configured[k]]>>,
         metric |-> <<[k \in {"target"} |-> Configured[k]]>>])

\* lines 25-94: the state __init__ leaves, at the entry of async_run.
Init ==
    /\ pc = "create_tasks"
    /\ is_running = FALSE
    /\ is_paused = FALSE
    /\ assessment_over = FALSE
    /\ start_time = 0
    /\ metrics = InitMetrics
    /\ global_event_queue = <<>>
    /\ published = <<>>
    /\ task = [a \in Assessors |-> "NotCreated"]
    /\ count = [a \in Assessors |-> 0]
    /\ target_up \in BOOLEAN
    /\ clock = 0
    /\ shutdown = FALSE
    /\ metrics_assessment_pool \in EnginePools
    /\ assess_log = <<>>
    /\ requests = 0
    /\ paused_msgs = 0
    /\ lock = FALSE
    /\ ppc = [p \in Publishers |-> "idle"]
    /\ acquired = <<>>
    /\ specifications = FilledSpecifications
    /\ allocated = TRUE

Next ==
    \/ Engine
    \/ Pause
    \/ Resume
    \/ \E a \in Assessors : Assessor(a)
    \/ TargetChange
    \/ Tick
    \/ Shutdown

Spec == Init /\ [][Next]_vars

\* The event loop runs every task that can run: the engine coroutine and the
\* assessor tasks each take their next step.
FairSpec ==
    /\ Spec
    /\ WF_vars(Engine)
    /\ \A a \in Assessors :
           /\ WF_vars(Subscribe(a) \/ SubscribeTimeout(a))
           /\ WF_vars(Drain(a))
           /\ WF_vars(Close(a))

\* metric_assessment on every pool: the engine at the entry of end_assessment,
\* after a run Idle -> Running -> target absent with the assessors joined.
InitMetric ==
    /\ pc = "end_assessment"
    /\ is_running = TRUE
    /\ is_paused = FALSE
    /\ assessment_over = FALSE
    /\ start_time = 0
    /\ metrics = InitMetrics
    /\ global_event_queue = publish_global_event(
                                publish_global_event(<<>>, 1, NODE_ADDED), 2, NODE_REMOVED)
    /\ published = <<NODE_ADDED, NODE_REMOVED>>
    /\ task = [a \in Assessors |-> "Closed"]
    /\ count \in [Assessors -> 0..1]
    /\ target_up = FALSE
    /\ clock \in 0..1
    /\ shutdown = FALSE
    /\ metrics_assessment_pool \in AllPools
    /\ assess_log = <<>>
    /\ requests = 0
    /\ paused_msgs = 0
    /\ lock = FALSE
    /\ ppc = [p \in Publishers |-> "idle"]
    /\ acquired = <<>>
    /\ specifications = FilledSpecifications
    /\ allocated = TRUE

NextMetric == EndAssessment \/ LoopExit

SpecMetric == InitMetric /\ [][NextMetric]_vars

\* The log of a run with the engine Paused for QueueCap - 2 poll ticks.
BaseLog == [i \in 1..(QueueCap - 1) |-> IF i = 1 THEN NODE_ADDED ELSE ASSESSMENT_PAUSED]

\* Concurrent publishers: the engine is Paused and asleep (line 138) with
\* BaseLog in its queue while the further tasks publish.
InitPublish ==
    /\ pc = "sleep"
    /\ is_running = TRUE
    /\ is_paused = TRUE
    /\ assessment_over = FALSE
    /\ start_time = 0
    /\ metrics = InitMetrics
    /\ global_event_queue = [i \in 1..Len(BaseLog) |-> [stamp |-> i, event |-> BaseLog[i]]]
    /\ published = BaseLog
    /\ task = [a \in Assessors |-> "Active"]
    /\ count = [a \in Assessors |-> 0]
    /\ target_up = TRUE
    /\ clock = 0
    /\ shutdown = FALSE
    /\ metrics_assessment_pool \in EnginePools
    /\ assess_log = <<>>
    /\ requests = 1
    /\ paused_msgs = 0
    /\ lock = FALSE
    /\ ppc = [p \in Publishers |-> "idle"]
    /\ acquired = <<>>
    /\ specifications = FilledSpecifications
    /\ allocated = TRUE

NextPublish == \E p \in Publishers : Publisher(p)

SpecPublish == InitPublish /\ [][NextPublish]_vars

\* The allocator on every configuration of one topic requirement and one
\* metric requirement: the state of __init__ at line 94.
InitAlloc ==
    /\ pc = "__init__"
    /\ is_running = FALSE
    /\ is_paused = FALSE
    /\ assessment_over = FALSE
    /\ start_time = 0
    /\ metrics = InitMetrics
    /\ global_event_queue = <<>>
    /\ published = <<>>
    /\ task = [a \in Assessors |-> "NotCreated"]
    /\ count = [a \in Assessors |-> 0]
    /\ target_up \in BOOLEAN
    /\ clock = 0
    /\ shutdown = FALSE
    /\ metrics_assessment_pool = <<>>
    /\ assess_log = <<>>
    /\ requests = 0
    /\ paused_msgs = 0
    /\ lock = FALSE
    /\ ppc = [p \in Publishers |-> "idle"]
    /\ acquired = <<>>
    /\ specifications \in [topic : [1..1 -> RawRequirements],
                           metric : [1..1 -> RawRequirements]]
    /\ allocated = FALSE

NextAlloc == Allocate

SpecAlloc == InitAlloc /\ [][NextAlloc]_vars


(***************************************************************************)
(* Properties.                                                             *)
(***************************************************************************)
Last(seq) == seq[Len(seq)]
Min(a, b) == IF a < b THEN a ELSE b

RECURSIVE SumOver(_, _)
SumOver(f, S) ==
    IF S = {} THEN 0
    ELSE LET a == CHOOSE x \in S : TRUE IN f[a] + SumOver(f, S \ {a})

\* C1: a run Idle -> Running -> pause() -> Paused -> target absent -> Ended
\* (one effective pause request and no resume) has published exactly
\* NodeAdded, AssessmentPaused, NodeRemoved, in that order.
C1_PausedRunEvents ==
    (assessment_over /\ requests = 1)
        => published = <<NODE_ADDED, ASSESSMENT_PAUSED, NODE_REMOVED>>

\* C2: when the report is computed with execution_time = 0, frequency is the
\* undefined value, no ZeroDivisionError is raised and the engine is Ended.
C2_ZeroTimeGuard ==
    ((pc = "ZeroDivisionError" \/ assessment_over) /\ metrics.execution_time = 0)
        => /\ metrics.frequency = Undefined
           /\ pc # "ZeroDivisionError"
           /\ assessment_over

\* C3: once a poll of a Running or Paused engine has seen the target absent,
\* the engine eventually is Ended.
C3_EndedAfterAbsent == (pc = "publish_removed") ~> assessment_over

\* C4: the queue never holds more than 10 entries; it holds the last
\* min(N, 10) of the N events published, in publication order, hence exactly
\* 10 once more than 10 were published.
C4_QueueBound ==
    LET n == Len(published)
        m == Len(global_event_queue)
    IN  /\ m <= QueueCap
        /\ m = Min(n, QueueCap)
        /\ \A i \in 1..m :
               global_event_queue[i] =
                   [stamp |-> n - m + i, event |-> published[n - m + i]]

C4_Witness == Len(published) > QueueCap /\ Len(global_event_queue) = QueueCap

\* C5: a step that takes the engine from Paused to Running appends exactly
\* one AssessmentResumed event to the event log.
C5_ResumePublishes ==
    [][(is_running /\ is_paused /\ is_running' /\ ~is_paused')
          => published' = Append(published, ASSESSMENT_RESUMED)]_vars

\* C6: the aggregate metrics are computed only when NodeRemoved has been
\* published and every assessor task has completed; end_assessment is not
\* entered, and no metric changes, while an assessor task is still running.
C6_JoinBeforeAggregate ==
    [][(metrics' # metrics \/ pc' = "end_assessment")
          => /\ \A a \in Assessors : task[a] = "Closed"
             /\ published # <<>>
             /\ Last(published) = NODE_REMOVED]_vars

C6_Witness ==
    /\ assessment_over
    /\ metrics.number_of_messages > 0
    /\ \A a \in Assessors : task[a] = "Closed"

\* C7 as stated: an Ended engine that sees the target present again starts a
\* new assessment cycle.
C7_Restartable == (assessment_over /\ target_up) ~> (~assessment_over /\ is_running)

\* C7 amended: the engine is single-shot.  Once Ended it stays Ended: the loop
\* is left, is_running stays false, start_time and the metrics keep their
\* values and no event is published, whether or not the target is present.
C7_SingleShot ==
    [][assessment_over
          => /\ assessment_over'
             /\ ~is_running'
             /\ start_time' = start_time
             /\ metrics' = metrics
             /\ published' = published
             /\ pc' \in {"while", "returned"}]_vars

C7_Witness == assessment_over /\ pc = "returned" /\ target_up

\* A requirement whose assessment fails: its target is invalid or its
\* evaluation raises.
FailingRequirement(req) ==
    \/ ~req.target.list /\ ~req.target.num
    \/ req.target.list /\ \E j \in 1..Len(req.target.limits) :
           ~req.target.limits[j].num \/ req.target.limits[j].k \notin {"min", "max"}
    \/ req.verdict = "raises"

HasFailingRequirement(ms) ==
    \E i \in 1..Len(ms.requirements) : FailingRequirement(ms.requirements[i])

Logged(k, i) ==
    \E e \in 1..Len(assess_log) : assess_log[e].spec = k /\ assess_log[e].req = i

\* C8: after the assessment, every requirement of a MetricSpec of a known
\* metric that comes after a MetricSpec with a failing requirement has its
\* outcome logged.
C8_FailuresIsolated ==
    assessment_over =>
        \A j \in 1..Len(metrics_assessment_pool) :
            \A k \in (j + 1)..Len(metrics_assessment_pool) :
                (/\ HasFailingRequirement(metrics_assessment_pool[j])
                 /\ metrics_assessment_pool[k].metric \in MetricKeys
                 /\ ~HasFailingRequirement(metrics_assessment_pool[k]))
                    => \A i \in 1..Len(metrics_assessment_pool[k].requirements) :
                           Logged(k, i)

\* C9: after the assessment, a MetricSpec of an unknown metric has its error
\* logged and none of its requirements, and every other MetricSpec of a
\* known metric has been taken up.
C9_UnknownMetricSkipped ==
    assessment_over =>
        \A j \in 1..Len(metrics_assessment_pool) :
            metrics_assessment_pool[j].metric \notin MetricKeys
                => /\ \E e \in 1..Len(assess_log) :
                          assess_log[e] = Entry(j, 0, "not_found")
                   /\ \A i \in 1..Len(metrics_assessment_pool[j].requirements) :
                          ~Logged(j, i)
                   /\ \A k \in 1..Len(metrics_assessment_pool) :
                          metrics_assessment_pool[k].metric \in MetricKeys
                              => Logged(k, 0)

\* C10: start_time is the clock of the Idle -> Running step and no step of a
\* running engine changes it; on entry to Ended execution_time is the clock
\* minus that time, number_of_messages is the sum of the assessors' counts,
\* and frequency is their quotient when execution_time is not zero.
C10_ReportValues ==
    [][/\ (~is_running /\ is_running') => start_time' = clock
       /\ is_running => start_time' = start_time
       /\ (~assessment_over /\ assessment_over')
             => /\ metrics'.execution_time = clock - start_time
                /\ metrics'.number_of_messages = SumOver(count, Assessors)
                /\ metrics'.execution_time # 0
                      => /\ metrics'.frequency.den # 0
                         /\ metrics'.frequency.num * metrics'.execution_time
                                = metrics'.number_of_messages * metrics'.frequency.den]_vars

C10_Witness ==
    /\ assessment_over
    /\ requests >= 2
    /\ start_time > 0
    /\ metrics.execution_time > 0
    /\ metrics.number_of_messages > 1


Occurrences(seq, e) == Cardinality({i \in 1..Len(seq) : seq[i] = e})

\* C11: until the engine is Ended the metrics keep their initial values, and
\* start_time is written by the Idle -> Running step only.
C11_OnlyEndedWritesMetrics ==
    /\ [](~assessment_over => metrics = InitMetrics)
    /\ [][start_time' # start_time => (~is_running /\ is_running')]_vars

\* C12: the step that pauses the engine leaves every assessor task, every
\* count, the queue and the engine's position alone; while the engine is
\* Paused an assessor leaves Active only after NodeRemoved was published; and
\* the number_of_messages of the report includes the messages counted while
\* the engine was Paused.
C12_PauseKeepsAssessors ==
    [][/\ (~is_paused /\ is_paused')
             => /\ task' = task
                /\ count' = count
                /\ global_event_queue' = global_event_queue
                /\ pc' = pc
       /\ (is_paused /\ \E a \in Assessors : task[a] = "Active" /\ task'[a] # "Active")
             => Occurrences(published, NODE_REMOVED) > 0
       /\ (~assessment_over /\ assessment_over')
             => /\ metrics'.number_of_messages = SumOver(count, Assessors)
                /\ metrics'.number_of_messages >= paused_msgs]_vars

C12_Witness ==
    /\ assessment_over
    /\ paused_msgs > 0
    /\ metrics.number_of_messages >= paused_msgs

\* C13 as stated: an assessor task exists only once NodeAdded has been
\* published and start_time recorded, never while the engine is Idle.
C13_SpawnedOnStart ==
    (\E a \in Assessors : task[a] # "NotCreated")
        => /\ published # <<>>
           /\ published[1] = NODE_ADDED
           /\ pc # "start_assessment"
           /\ (is_running \/ assessment_over \/ pc = "ZeroDivisionError")

\* C13 amended: the assessor tasks are created by async_run before its loop,
\* all in one step, while the engine is Idle and nothing has been published;
\* inside the loop every task exists, and no task is created a second time.
C13_CreatedBeforeLoop ==
    /\ [](pc # "create_tasks" => \A a \in Assessors : task[a] # "NotCreated")
    /\ [][/\ (\E a \in Assessors : task[a] = "NotCreated" /\ task'[a] # "NotCreated")
                => /\ pc = "create_tasks"
                   /\ ~is_running
                   /\ published = <<>>
                   /\ \A b \in Assessors :
                          task[b] = "NotCreated" /\ task'[b] # "NotCreated"
          /\ \A a \in Assessors : task[a] # "NotCreated" => task'[a] # "NotCreated"]_vars

C13_Witness ==
    /\ pc = "sleep"
    /\ ~is_running /\ ~assessment_over
    /\ published = <<>>
    /\ \A a \in Assessors : task[a] # "NotCreated"

\* C14: the engine step of a poll tick that keeps the phase (the engine is
\* about to publish AssessmentPaused again, or about to sleep) appends no
\* event and leaves the flags, start_time and the metrics unchanged.
C14_WaitOnlyTicks ==
    [][(pc \in {"publish_paused", "sleep"} /\ pc' # pc)
          => /\ published' = published
             /\ global_event_queue' = global_event_queue
             /\ is_running' = is_running
             /\ is_paused' = is_paused
             /\ assessment_over' = assessment_over
             /\ start_time' = start_time
             /\ metrics' = metrics]_vars

\* C15: with several tasks inside publish_global_event in any interleaving,
\* at most one task is past the lock; the events are appended in the order
\* the lock was taken; and whenever no task is inside, the queue holds the
\* last min(N, 10) of the N events published, in that order.
C15_AtomicPublish ==
    LET all == BaseLog \o acquired
        n == Len(published)
        m == Len(global_event_queue)
    IN  /\ Cardinality({p \in Publishers : ppc[p] # "idle"}) <= 1
        /\ lock <=> \E p \in Publishers : ppc[p] # "idle"
        /\ n <= Len(all) /\ n >= Len(all) - 1
        /\ \A i \in 1..n : published[i] = all[i]
        /\ ~lock => /\ n = Len(all)
                    /\ m = Min(n, QueueCap)
                    /\ \A i \in 1..m :
                           global_event_queue[i] =
                               [stamp |-> n - m + i, event |-> all[n - m + i]]

C15_Witness ==
    /\ ~lock
    /\ Len(acquired) >= 2
    /\ Len(published) > QueueCap
    /\ Len(global_event_queue) = QueueCap

\* The defaults the specification states.
StatedDefaults ==
    [mode |-> "exists", temporal_consistency |-> "False", timein |-> "None",
     timeout |-> "None", tolerance |-> "0.05", comparator |-> "="]

\* The defaults by kind of requirement: a metric's mode defaults to total.
DefaultsOf(kind) ==
    IF kind = "metric" THEN [StatedDefaults EXCEPT !.mode = "total"] ELSE StatedDefaults

\* C16 as stated: the allocator gives every key a requirement omits its
\* stated default, mode = "exists" included, and keeps every key given.
C16_StatedDefaults ==
    [][(~allocated /\ allocated')
          => \A kind \in {"topic", "metric"} :
                 \A i \in 1..Len(specifications[kind]) :
                     \A k \in OptionalKeys :
                         specifications'[kind][i][k] =
                             IF k \in DOMAIN specifications[kind][i]
                                 THEN specifications[kind][i][k]
                                 ELSE StatedDefaults[k]]_vars

\* C16 amended: as stated, except that the mode a metric requirement omits
\* becomes "total"; only a channel requirement's becomes "exists".
C16_DefaultsByKind ==
    [][(~allocated /\ allocated')
          => \A kind \in {"topic", "metric"} :
                 /\ Len(specifications'[kind]) = Len(specifications[kind])
                 /\ \A i \in 1..Len(specifications[kind]) :
                        /\ DOMAIN specifications'[kind][i] = OptionalKeys \cup {"target"}
                        /\ specifications'[kind][i]["target"]
                               = specifications[kind][i]["target"]
                        /\ \A k \in OptionalKeys :
                               specifications'[kind][i][k] =
                                   IF k \in DOMAIN specifications[kind][i]
                                       THEN specifications[kind][i][k]
                                       ELSE DefaultsOf(kind)[k]]_vars

C16_Witness ==
    /\ allocated
    /\ pc = "create_tasks"
    /\ specifications.metric[1]["mode"] = "total"
    /\ specifications.topic[1]["mode"] = "exists"
    /\ specifications.topic[1]["tolerance"] = "0.5"
    /\ specifications.metric[1]["comparator"] = "<"
    /\ specifications.metric[1]["timeout"] = "None"

EvaluatedEntries == {e \in 1..Len(assess_log) : Len(assess_log[e].call) = 4}

\* C17: every call of the evaluator gets the metric's value first and the
\* comparator and the tolerance in the same positions, for a scalar target as
\* for a range target.
C17_SameArgumentOrder ==
    assessment_over =>
        \A e \in EvaluatedEntries :
            /\ assess_log[e].call[1] = metrics[metrics_assessment_pool[assess_log[e].spec].metric]
            /\ {assess_log[e].call[3], assess_log[e].call[4]} = {"comparator", "tolerance"}
            /\ \A f \in EvaluatedEntries :
                   /\ assess_log[e].call[3] = assess_log[f].call[3]
                   /\ assess_log[e].call[4] = assess_log[f].call[4]

\* C18: is_paused implies is_running; once assessment_over both flags are
\* false; while the engine is not running (Idle or Ended) no step sets
\* is_paused or counts a request, and only start_assessment sets is_running;
\* while it is not Paused no step counts a resume or stops it from running
\* other than end_assessment.
C18_FlagsConsistent ==
    /\ [](is_paused => is_running)
    /\ [](assessment_over => (~is_running /\ ~is_paused))
    /\ [][/\ ~is_running
                => /\ ~is_paused'
                   /\ requests' = requests
                   /\ is_running' => pc = "start_assessment"
          /\ (is_running /\ ~is_paused)
                => /\ is_running' \/ pc = "end_assessment"
                   /\ ~is_paused' => requests' = requests]_vars

C18_Witness ==
    /\ assessment_over
    /\ pc = "returned"
    /\ requests >= 2
    /\ ~is_running /\ ~is_paused

\* C19: once the engine has left Idle or published anything, NodeAdded has
\* been published exactly once and is the first event; NodeRemoved is
\* published at most once and is then the last event.
C19_AddedFirstRemovedLast ==
    /\ (is_running \/ assessment_over \/ published # <<>>)
           => /\ Occurrences(published, NODE_ADDED) = 1
              /\ published[1] = NODE_ADDED
    /\ Occurrences(published, NODE_REMOVED) <= 1
    /\ Occurrences(published, NODE_REMOVED) = 1 => Last(published) = NODE_REMOVED

C19_Witness ==
    /\ assessment_over
    /\ Len(published) > 3
    /\ published[1] = NODE_ADDED
    /\ Last(published) = NODE_REMOVED

====
